---- MODULE Spec2Model ----
(***************************************************************************)
(* Model of the FastAPI text-intelligence starter (src/app.py): the        *)
(* in-memory nonce store, the session (JWT) issuance and verification, the *)
(* request validation helpers and the analyze endpoint.                    *)
(*                                                                         *)
(* Python values.  A str is a sequence of one-character strings, so that   *)
(* startswith, strip, lower and the substring test `in` are computed as    *)
(* Python computes them.  None and True are values distinct from every     *)
(* str.  A dict is a function from its keys.                               *)
(***************************************************************************)
EXTENDS Integers, Sequences, FiniteSets, Bags, TLC

\* ------------------------------------------------------------------------
\* Python values and str methods
\* ------------------------------------------------------------------------

\* Python's None (not a str: its only element is not one character).
None == <<"None">>

\* Python's True as stored in the options dict (not a str either).
PyTrue == <<"True">>

\* bool(s) of an Optional[str]: None and "" are falsy.
Truthy(s) == s # None /\ s # <<>>

\* The characters str.strip() removes.
Whitespace == {" ", "\t", "\n", "\r", "\f"}

\* s.startswith(p)
StartsWith(s, p) == Len(s) >= Len(p) /\ SubSeq(s, 1, Len(p)) = p

\* s.startswith((p1, p2, ...)): any of a tuple of prefixes.
StartsWithAny(s, ps) == \E p \in ps : StartsWith(s, p)

\* s.lstrip()
RECURSIVE LStrip(_)
LStrip(s) ==
    IF s # <<>> /\ Head(s) \in Whitespace THEN LStrip(Tail(s)) ELSE s

\* s.rstrip()
RECURSIVE RStrip(_)
RStrip(s) ==
    IF s # <<>> /\ s[Len(s)] \in Whitespace
    THEN RStrip(SubSeq(s, 1, Len(s) - 1))
    ELSE s

\* s.strip()
Strip(s) == RStrip(LStrip(s))

UpperCase ==
    <<"A","B","C","D","E","F","G","H","I","J","K","L","M",
      "N","O","P","Q","R","S","T","U","V","W","X","Y","Z">>

LowerCase ==
    <<"a","b","c","d","e","f","g","h","i","j","k","l","m",
      "n","o","p","q","r","s","t","u","v","w","x","y","z">>

LowerChar(c) ==
    IF \E i \in 1..26 : UpperCase[i] = c
    THEN LowerCase[CHOOSE i \in 1..26 : UpperCase[i] = c]
    ELSE c

\* s.lower()
Lower(s) == [i \in 1..Len(s) |-> LowerChar(s[i])]

\* p in s (substring test)
Contains(s, p) ==
    \E i \in 1..(Len(s) - Len(p) + 1) : SubSeq(s, i, i + Len(p) - 1) = p

\* ------------------------------------------------------------------------
\* String literals of the source
\* ------------------------------------------------------------------------

HttpPrefix == <<"h","t","t","p",":","/","/">>

HttpsPrefix == <<"h","t","t","p","s",":","/","/">>

MsgEither ==
    <<"R","e","q","u","e","s","t"," ","m","u","s","t"," ","c","o","n","t",
      "a","i","n"," ","e","i","t","h","e","r"," ","'","t","e","x","t","'",
      " ","o","r"," ","'","u","r","l","'"," ","f","i","e","l","d">>

MsgNotBoth ==
    <<"R","e","q","u","e","s","t"," ","m","u","s","t"," ","c","o","n","t",
      "a","i","n"," ","e","i","t","h","e","r"," ","'","t","e","x","t","'",
      " ","o","r"," ","'","u","r","l","'",","," ","n","o","t"," ","b","o",
      "t","h">>

MsgInvalidUrl ==
    <<"I","n","v","a","l","i","d"," ","U","R","L"," ","f","o","r","m","a","t">>

MsgEmptyText ==
    <<"T","e","x","t"," ","c","o","n","t","e","n","t"," ","c","a","n","n",
      "o","t"," ","b","e"," ","e","m","p","t","y">>

MsgSummarizeV1 ==
    <<"S","u","m","m","a","r","i","z","a","t","i","o","n"," ","v","1"," ",
      "i","s"," ","n","o"," ","l","o","n","g","e","r"," ","s","u","p","p",
      "o","r","t","e","d","."," ","P","l","e","a","s","e"," ","u","s","e",
      " ","v","2"," ","o","r"," ","t","r","u","e",".">>

MsgProcessingFailed ==
    <<"T","e","x","t"," ","p","r","o","c","e","s","s","i","n","g"," ","f",
      "a","i","l","e","d">>

MsgNonceRequired ==
    <<"V","a","l","i","d"," ","s","e","s","s","i","o","n"," ","n","o","n",
      "c","e"," ","r","e","q","u","i","r","e","d","."," ","P","l","e","a",
      "s","e"," ","r","e","f","r","e","s","h"," ","t","h","e"," ","p","a",
      "g","e",".">>

MsgMissingToken ==
    <<"A","u","t","h","o","r","i","z","a","t","i","o","n"," ","h","e","a",
      "d","e","r"," ","w","i","t","h"," ","B","e","a","r","e","r"," ","t",
      "o","k","e","n"," ","i","s"," ","r","e","q","u","i","r","e","d">>

MsgSessionExpired ==
    <<"S","e","s","s","i","o","n"," ","e","x","p","i","r","e","d",","," ",
      "p","l","e","a","s","e"," ","r","e","f","r","e","s","h"," ","t","h",
      "e"," ","p","a","g","e">>

MsgInvalidToken ==
    <<"I","n","v","a","l","i","d"," ","s","e","s","s","i","o","n"," ","t",
      "o","k","e","n">>

BearerPrefix ==
    <<"B","e","a","r","e","r"," ">>

StrTrue == <<"t","r","u","e">>

StrV1 == <<"v","1">>

StrV2 == <<"v","2">>

StrEn == <<"e","n">>

StrText == <<"t","e","x","t">>

StrUrl == <<"u","r","l">>

StrTooLong == <<"t","o","o"," ","l","o","n","g">>

\* ------------------------------------------------------------------------
\* Helper functions (pure)
\* ------------------------------------------------------------------------

\* A body that supplies exactly the field k.
RequestDict(k, v) == [f \in {k} |-> v]

\* Mutant: a field counts as supplied when it is not None.
validate_text_input_not_none(body) ==
    IF body.text = None /\ body.url = None
    THEN [val |-> None, err |-> MsgEither]
    ELSE IF body.text # None /\ body.url # None
    THEN [val |-> None, err |-> MsgNotBoth]
    ELSE IF body.url # None
    THEN IF ~StartsWithAny(body.url, {HttpPrefix, HttpsPrefix})
         THEN [val |-> None, err |-> MsgInvalidUrl]
         ELSE [val |-> RequestDict("url", body.url), err |-> None]
    ELSE IF Strip(body.text) = <<>>
         THEN [val |-> None, err |-> MsgEmptyText]
         ELSE [val |-> RequestDict("text", body.text), err |-> None]

\* validate_text_input(body): the pair (request_dict, error_msg), with
\* truthiness tests deciding which field the body carries.
validate_text_input(body) ==
    IF ~Truthy(body.text) /\ ~Truthy(body.url)
    THEN [val |-> None, err |-> MsgEither]
    ELSE IF Truthy(body.text) /\ Truthy(body.url)
    THEN [val |-> None, err |-> MsgNotBoth]
    ELSE IF Truthy(body.url)
    THEN IF ~StartsWithAny(body.url, {HttpPrefix, HttpsPrefix})
         THEN [val |-> None, err |-> MsgInvalidUrl]
         ELSE [val |-> RequestDict("url", body.url), err |-> None]
    ELSE IF Strip(body.text) = <<>>
         THEN [val |-> None, err |-> MsgEmptyText]
         ELSE [val |-> RequestDict("text", body.text), err |-> None]

\* options[k] = v on a dict.
DictSet(d, k, v) == [x \in DOMAIN d \cup {k} |-> IF x = k THEN v ELSE d[x]]

\* Mutant: any non-empty parameter value sets the flag.
WithFlag_truthy(options, name, param) ==
    IF Truthy(param) THEN DictSet(options, name, PyTrue) ELSE options

\* The flag `name` added to the options when its parameter is "true".
WithFlag(options, name, param) ==
    IF param = StrTrue THEN DictSet(options, name, PyTrue) ELSE options

\* build_deepgram_options(language, summarize, topics, sentiment, intents):
\* the pair (options, error_msg).
build_deepgram_options(language, summarize, topics, sentiment, intents) ==
    LET base == [k \in {"language"} |-> language]
        withSummarize ==
            IF summarize = StrTrue THEN DictSet(base, "summarize", PyTrue)
            ELSE IF summarize = StrV2 THEN DictSet(base, "summarize", StrV2)
            ELSE base
    IN  IF summarize # StrTrue /\ summarize # StrV2 /\ summarize = StrV1
        THEN [val |-> None, err |-> MsgSummarizeV1]
        ELSE [val |-> WithFlag(WithFlag(WithFlag(withSummarize,
                                   "topics", topics),
                                   "sentiment", sentiment),
                                   "intents", intents),
              err |-> None]

\* ------------------------------------------------------------------------
\* Bounds and program constants
\* ------------------------------------------------------------------------

\* Clock resolution: time.time() is a float, modelled in ticks of 1/Res s.
Res == 2

\* Fresh values secrets.token_hex can return during a run.
MaxNonces == 2

\* Clock advances during a run.
MaxAdvances == 3

\* GET /api/session requests during a run.
MaxReqs == 2

\* GET /api/session requests during a run of the analyze endpoint.
MaxSessions == 1

\* A history counter stops counting here ("this many or more").
CountCap == 2

NONCE_TTL == 300

JWT_EXPIRY == 3600

\* ------------------------------------------------------------------------
\* State
\* ------------------------------------------------------------------------

VARIABLES
    now,             \* time.time(), in ticks
    advances,        \* clock advances so far
    env_secret,      \* os.environ.get("SESSION_SECRET")
    has_template,    \* frontend/dist/index.html was read at import
    session_nonces,  \* the nonce store: nonce -> expiry timestamp (ticks)
    hist,            \* history: per issued nonce, its issue time and calls
    last,            \* history: the last step: the call and what it returned
    reqs,            \* GET /api/session requests, a bag: waiting and answered
    resp,            \* the last POST /api/text-intelligence exchange
    pure             \* a call of a helper function: arguments and result

vars ==
    <<now, advances, env_secret, has_template, session_nonces, hist, last,
      reqs, resp, pure>>

\* int(x) of a timestamp in ticks: whole seconds.
IntSeconds(t) == t \div Res

\* A duration of s seconds, in ticks.
Seconds(s) == s * Res

Min(a, b) == IF a < b THEN a ELSE b

\* ------------------------------------------------------------------------
\* Nonce store
\* ------------------------------------------------------------------------

HexDigit ==
    <<"0","1","2","3","4","5","6","7","8","9","a","b","c","d","e","f">>

\* The i-th value secrets.token_hex(16) returns in a run: the values are
\* random and taken to be pairwise distinct.
token_hex(i) == <<"c", HexDigit[i]>>

NoncePool == {token_hex(i) : i \in 1..MaxNonces}

\* Values token_hex has returned so far.
Issued == Cardinality(DOMAIN hist)

\* A string token_hex never returned.
UnknownNonce == <<"z","z">>

\* generate_nonce(): the store after recording `nonce` (the value drawn by
\* secrets.token_hex) with expiry time.time() + NONCE_TTL.
generate_nonce(store, nonce, t) ==
    [k \in DOMAIN store \cup {nonce} |->
        IF k = nonce THEN t + Seconds(NONCE_TTL) ELSE store[k]]

\* Mutant: the entry is read (get) and not removed (pop).
consume_nonce_get(store, nonce, t) ==
    [store |-> store,
     ret   |-> nonce \in DOMAIN store /\ t < store[nonce]]

\* Mutant: the expiry instant itself still counts as valid.
consume_nonce_inclusive(store, nonce, t) ==
    [store |-> [k \in DOMAIN store \ {nonce} |-> store[k]],
     ret   |-> nonce \in DOMAIN store /\ t <= store[nonce]]

\* consume_nonce(nonce): session_nonces.pop(nonce, None), then the expiry
\* test; the store after the call and the value returned.
consume_nonce(store, nonce, t) ==
    [store |-> [k \in DOMAIN store \ {nonce} |-> store[k]],
     ret   |-> nonce \in DOMAIN store /\ t < store[nonce]]

\* cleanup_nonces(): the store without the entries with now >= expiry.
cleanup_nonces(store, t) ==
    [k \in {x \in DOMAIN store : ~(t >= store[x])} |-> store[k]]

\* History of one nonce: issue time, sweeps it was in the store for, and
\* how many consume calls on it returned True.
NewHist(t) == [at |-> t, sweeps |-> 0, ok |-> 0]

Bump(n) == Min(n + 1, CountCap)

HistAfterConsume(h, nonce, ret) ==
    [k \in DOMAIN h |->
        IF k = nonce
        THEN [h[k] EXCEPT !.ok = IF ret THEN Bump(@) ELSE @]
        ELSE h[k]]

HistAfterSweep(h, store) ==
    [k \in DOMAIN h |->
        IF k \in DOMAIN store THEN [h[k] EXCEPT !.sweeps = Bump(@)] ELSE h[k]]

\* What `last` holds after a step that returns nothing of interest.
OtherStep == [op |-> "other"]

\* The clock moves forward by d ticks.
Tick(d) ==
    /\ advances < MaxAdvances
    /\ now' = now + d
    /\ advances' = advances + 1
    /\ last' = OtherStep
    /\ UNCHANGED <<env_secret, has_template, session_nonces, hist, reqs,
                   resp, pure>>

\* Clock advances that reach a session token's expiry from either side.
TickJwt == \E d \in {1, Seconds(JWT_EXPIRY) - 1} : Tick(d)

\* Clock advances that reach a nonce's expiry from either side.
TickNonce == \E d \in {1, Seconds(NONCE_TTL) - 1} : Tick(d)

\* A call of generate_nonce().
GenerateNonce ==
    LET nonce == token_hex(Issued + 1)
    IN  /\ Issued < MaxNonces
        /\ session_nonces' = generate_nonce(session_nonces, nonce, now)
        /\ hist' = (nonce :> NewHist(now)) @@ hist
        /\ last' = OtherStep
        /\ UNCHANGED <<now, advances, env_secret, has_template, reqs,
                       resp, pure>>

\* A call of consume_nonce(nonce).
ConsumeNonce ==
    \E nonce \in NoncePool \cup {UnknownNonce} :
        LET r == consume_nonce(session_nonces, nonce, now)
        IN  /\ session_nonces' = r.store
            /\ hist' = HistAfterConsume(hist, nonce, r.ret)
            /\ last' = [op |-> "consume", nonce |-> nonce, ret |-> r.ret]
            /\ UNCHANGED <<now, advances, env_secret, has_template, reqs,
                           resp, pure>>

\* A call of cleanup_nonces().
CleanupNonces ==
    /\ session_nonces' = cleanup_nonces(session_nonces, now)
    /\ hist' = HistAfterSweep(hist, session_nonces)
    /\ last' = OtherStep
    /\ UNCHANGED <<now, advances, env_secret, has_template, reqs, resp,
                   pure>>

\* The values os.environ.get("SESSION_SECRET") can have: unset, empty, set.
EnvSecrets == {None, <<>>, <<"s","3","c","r","e","t">>}

NoCall == [op |-> "none"]

NoExchange == [state |-> "none"]

InitStore ==
    /\ now = 0
    /\ advances = 0
    /\ env_secret = None
    /\ has_template = FALSE
    /\ session_nonces = <<>>
    /\ hist = <<>>
    /\ last = NoCall
    /\ reqs = EmptyBag
    /\ resp = NoExchange
    /\ pure = NoCall

NextStore ==
    \/ TickNonce
    \/ GenerateNonce
    \/ ConsumeNonce
    \/ CleanupNonces

\* The nonce-store functions called in any order, with the clock advancing.
SpecStore == InitStore /\ [][NextStore]_vars

\* ------------------------------------------------------------------------
\* Nonce store: properties
\* ------------------------------------------------------------------------

\* C1 (single-use nonce): whatever the order of generate_nonce,
\* consume_nonce, cleanup_nonces and clock advances, consume_nonce returns
\* True at most once for a nonce value, and only for a value that
\* generate_nonce issued.
C1_SingleUse ==
    /\ \A n \in DOMAIN hist : hist[n].ok <= 1
    /\ (last.op = "consume" /\ last.ret) => last.nonce \in DOMAIN hist

\* C1 witness: a nonce was consumed successfully and a later consume_nonce
\* of it, still within its lifetime, returned False.
C1_Witness ==
    /\ last.op = "consume"
    /\ ~last.ret
    /\ last.nonce \in DOMAIN hist
    /\ hist[last.nonce].ok = 1
    /\ now < hist[last.nonce].at + Seconds(NONCE_TTL)

\* C3 (expiry): an entry's expiry is its issue time plus NONCE_TTL seconds;
\* consume_nonce(n) at time t returns True exactly when n is in the store
\* and t is strictly before that expiry, and n is not in the store after
\* the call; an entry that no call consumed stays in the store, unchanged,
\* for as long as it is unexpired, whatever sweeps run.
C3_Expiry ==
    /\ [](\A n \in DOMAIN session_nonces :
            /\ n \in DOMAIN hist
            /\ session_nonces[n] = hist[n].at + Seconds(NONCE_TTL))
    /\ [][last'.op = "consume" =>
            /\ last'.ret <=>
                  /\ last'.nonce \in DOMAIN session_nonces
                  /\ now < hist[last'.nonce].at + Seconds(NONCE_TTL)
            /\ last'.nonce \notin DOMAIN session_nonces']_vars
    /\ [][\A n \in DOMAIN session_nonces :
            (/\ now' < session_nonces[n]
             /\ ~(last'.op = "consume" /\ last'.nonce = n))
            => /\ n \in DOMAIN session_nonces'
               /\ session_nonces'[n] = session_nonces[n]]_vars

\* C3 witness: one nonce was consumed successfully after two sweeps, and
\* another, never swept, has just been refused at exactly its expiry.
C3_Witness ==
    /\ last.op = "consume"
    /\ ~last.ret
    /\ last.nonce \in DOMAIN hist
    /\ hist[last.nonce].ok = 0
    /\ hist[last.nonce].sweeps = 0
    /\ now = hist[last.nonce].at + Seconds(NONCE_TTL)
    /\ \E n \in DOMAIN hist : hist[n].ok = 1 /\ hist[n].sweeps >= 2

\* ------------------------------------------------------------------------
\* Session auth: configuration, token issuance, the session routes
\* ------------------------------------------------------------------------

\* The value secrets.token_hex(32) returned at import.
RandomSecret == <<"r","a","n","d","o","m">>

\* SESSION_SECRET = os.environ.get("SESSION_SECRET") or secrets.token_hex(32)
SESSION_SECRET == IF Truthy(env_secret) THEN env_secret ELSE RandomSecret

\* Mutant: the nonce is required whatever the configuration.
REQUIRE_NONCE_always == TRUE

\* REQUIRE_NONCE = bool(os.environ.get("SESSION_SECRET"))
REQUIRE_NONCE == Truthy(env_secret)

\* jwt.encode({"iat": int(time.time()), "exp": int(time.time()) + JWT_EXPIRY},
\* secret, algorithm="HS256"): the claims (in seconds) and the signing key.
jwt_encode(t, secret) ==
    [iat |-> IntSeconds(t), exp |-> IntSeconds(t) + JWT_EXPIRY, key |-> secret]

\* The JSON body of an HTTPException(detail={"error": {...}}).
ErrorDetail(type, code, message) ==
    [detail |-> [error |-> [type |-> type, code |-> code,
                            message |-> message]]]

InvalidNonceBody ==
    ErrorDetail("AuthenticationError", "INVALID_NONCE", MsgNonceRequired)

\* Mutant: the nonce is looked up and checked but left in the store.
get_session_peek(x_session_nonce, store, t) ==
    IF REQUIRE_NONCE /\ (~Truthy(x_session_nonce)
                         \/ ~consume_nonce(store, x_session_nonce, t).ret)
    THEN [store |-> store, consumed |-> "false", status |-> 403,
          body |-> InvalidNonceBody]
    ELSE [store |-> store, consumed |-> "true", status |-> 200,
          body |-> [token |-> jwt_encode(t, SESSION_SECRET)]]

\* get_session(x_session_nonce): the store after the call, whether
\* consume_nonce was called and what it returned, and the response.
get_session(x_session_nonce, store, t) ==
    LET called == REQUIRE_NONCE /\ Truthy(x_session_nonce)
        r == consume_nonce(store, x_session_nonce, t)
    IN  IF REQUIRE_NONCE /\ (~Truthy(x_session_nonce) \/ ~r.ret)
        THEN [store |-> IF called THEN r.store ELSE store,
              consumed |-> IF called THEN "false" ELSE "skipped",
              status |-> 403,
              body |-> InvalidNonceBody]
        ELSE [store |-> IF called THEN r.store ELSE store,
              consumed |-> IF called THEN "true" ELSE "skipped",
              status |-> 200,
              body |-> [token |-> jwt_encode(t, SESSION_SECRET)]]

\* GET /: serve_index().  404 without a template; otherwise a sweep, a fresh
\* nonce, and the page carrying it.
ServeIndex ==
    /\ last' = OtherStep
    /\ IF ~has_template
       THEN UNCHANGED <<session_nonces, hist>>
       ELSE LET nonce == token_hex(Issued + 1)
                swept == cleanup_nonces(session_nonces, now)
            IN  /\ Issued < MaxNonces
                /\ session_nonces' = generate_nonce(swept, nonce, now)
                /\ hist' = (nonce :> NewHist(now))
                               @@ HistAfterSweep(hist, session_nonces)
    /\ UNCHANGED <<now, advances, env_secret, has_template, reqs, resp, pure>>

\* The X-Session-Nonce header values a client sends: absent, empty, or a
\* value of the pool (issued already, or not: an unknown value).
NonceHeaders == {None, <<>>} \cup NoncePool

\* The bag holding the one request r.
One(r) == SetToBag({r})

\* A GET /api/session request arrives, with a header value of H, and waits
\* to be handled; at most `limit` requests arrive in a run.
ArriveSession(H, limit) ==
    \E h \in H :
        /\ BagCardinality(reqs) < limit
        /\ reqs' = reqs (+) One([state |-> "pending", nonce |-> h])
        /\ last' = OtherStep
        /\ UNCHANGED <<now, advances, env_secret, has_template,
                       session_nonces, hist, resp, pure>>

\* The nonce was issued and its lifetime has not passed at time t.
Fresh(h, t) ==
    h \in DOMAIN hist /\ t < hist[h].at + Seconds(NONCE_TTL)

\* The handler of GET /api/session runs for a waiting request.
HandleSession ==
    \E r \in BagToSet(reqs) :
        /\ r.state = "pending"
        /\ LET h == r.nonce
               out == get_session(h, session_nonces, now)
           IN  /\ session_nonces' = out.store
               /\ hist' = IF out.consumed = "skipped" THEN hist
                          ELSE HistAfterConsume(hist, h, out.consumed = "true")
               /\ reqs' = (reqs (-) One(r)) (+)
                             One([state |-> "done", nonce |-> h,
                                  fresh |-> Fresh(h, now),
                                  consumed |-> out.consumed,
                                  status |-> out.status, body |-> out.body])
        /\ last' = OtherStep
        /\ UNCHANGED <<now, advances, env_secret, has_template, resp, pure>>

InitSession ==
    /\ now = 0
    /\ advances = 0
    /\ env_secret \in EnvSecrets
    /\ has_template \in BOOLEAN
    /\ session_nonces = <<>>
    /\ hist = <<>>
    /\ last = NoCall
    /\ reqs = EmptyBag
    /\ resp = NoExchange
    /\ pure = NoCall

NextSession ==
    \/ TickNonce
    \/ ServeIndex
    \/ ArriveSession(NonceHeaders, MaxReqs)
    \/ HandleSession

\* The session routes serving concurrent clients, with the clock advancing.
SpecSession == InitSession /\ [][NextSession]_vars

\* ------------------------------------------------------------------------
\* Session routes: properties
\* ------------------------------------------------------------------------

\* Answered requests that presented nonce n while n was issued and unexpired.
Racers(n) ==
    {r \in BagToSet(reqs) : r.state = "done" /\ r.nonce = n /\ r.fresh}

\* How many requests of the set S of request records there are.
Copies(S) == BagCardinality([r \in S |-> reqs[r]])

\* The response carries a token.
HasToken(r) == "token" \in DOMAIN r.body

\* The response is 403 AuthenticationError / INVALID_NONCE, without a token.
IsInvalidNonce(r) ==
    /\ r.status = 403
    /\ r.body = InvalidNonceBody

Succeeded(r) == r.status = 200 /\ HasToken(r)

\* C2 (concurrent consumption): with nonce enforcement enabled, among the
\* GET /api/session requests handled with the same issued, unexpired nonce,
\* in any interleaving with each other, page renders and clock advances,
\* exactly one received a token and every other one was rejected with
\* 403 INVALID_NONCE.
C2_OneWinner ==
    Truthy(env_secret) =>
        \A n \in NoncePool :
            Racers(n) # {} =>
                /\ Copies({r \in Racers(n) : Succeeded(r)}) = 1
                /\ \A r \in Racers(n) : Succeeded(r) \/ IsInvalidNonce(r)

\* C2 witness: two requests raced for one unexpired nonce; one has a token,
\* the other was rejected.
C2_Witness ==
    /\ Truthy(env_secret)
    /\ \E n \in NoncePool : \E r, q \in Racers(n) :
          Succeeded(r) /\ IsInvalidNonce(q)

\* The step answered the waiting request r with the response record d.
Answered(r, d) ==
    /\ r.state = "pending"
    /\ d.state = "done"
    /\ reqs' = (reqs (-) One(r)) (+) One(d)

\* C4 (session issuance gate): whenever the handler answers a request, with
\* SESSION_SECRET configured the answer is a token exactly when the header
\* is non-empty and names a stored, unexpired nonce (consume_nonce returned
\* True), and otherwise 403 AuthenticationError / INVALID_NONCE without a
\* token; with SESSION_SECRET not configured the answer is always a token,
\* consume_nonce is not called and the nonce store is left as it was.
C4_Gate ==
    [][\A r \in BagToSet(reqs) : \A d \in BagToSet(reqs') :
        Answered(r, d) =>
            LET h == r.nonce
                valid == /\ Truthy(h)
                         /\ h \in DOMAIN session_nonces
                         /\ now < session_nonces[h]
            IN  IF Truthy(env_secret)
                THEN /\ valid => /\ Succeeded(d)
                                 /\ d.consumed = "true"
                     /\ ~valid => /\ IsInvalidNonce(d)
                                  /\ d.consumed # "true"
                ELSE /\ Succeeded(d)
                     /\ d.consumed = "skipped"
                     /\ session_nonces' = session_nonces]_vars

\* C4 witness: under enforcement, one request was answered with a token and
\* one that sent no X-Session-Nonce header was rejected with 403.
C4_Witness ==
    /\ Truthy(env_secret)
    /\ \E r, q \in BagToSet(reqs) :
          /\ r.state = "done" /\ Succeeded(r) /\ r.consumed = "true"
          /\ q.state = "done" /\ IsInvalidNonce(q) /\ q.nonce = None

\* ------------------------------------------------------------------------
\* Session verification: require_session
\* ------------------------------------------------------------------------

\* A request without an Authorization header (authorization is None).
NoAuth == [present |-> FALSE]

\* An Authorization header: the string `head` followed by a credential,
\* which is a session token (the claims and key jwt_encode gives) or a
\* string that is no JWT ([junk |-> the string]).
Auth(head, cred) == [present |-> TRUE, head |-> head, cred |-> cred]

IsJunk(cred) == "junk" \in DOMAIN cred

\* The first characters of a credential as it appears in the header: a JWT
\* starts with the base64 of its JSON header.
CredChars(cred) == IF IsJunk(cred) THEN cred.junk ELSE <<"e","y","J">>

\* The header value as far as its characters are modelled.
HeaderChars(a) == a.head \o CredChars(a.cred)

\* authorization[7:], as the credential jwt.decode receives.
AfterPrefix(a) ==
    IF Len(a.head) = 7 THEN a.cred
    ELSE [junk |-> SubSeq(HeaderChars(a), 8, Len(HeaderChars(a)))]

\* Mutant: an expired token still decodes.
jwt_decode_no_expiry(token, secret, t) ==
    IF IsJunk(token) THEN "InvalidTokenError"
    ELSE IF token.key # secret THEN "InvalidTokenError"
    ELSE "ok"

\* jwt.decode(token, secret, algorithms=["HS256"]): "ok", or the exception
\* raised.  The signature is verified before the claims; the token is
\* expired once exp <= now.
jwt_decode(token, secret, t) ==
    IF IsJunk(token) THEN "InvalidTokenError"
    ELSE IF token.key # secret THEN "InvalidTokenError"
    ELSE IF Seconds(token.exp) <= t THEN "ExpiredSignatureError"
    ELSE "ok"

AuthError(code, message) ==
    [ok |-> FALSE, status |-> 401,
     body |-> ErrorDetail("AuthenticationError", code, message)]

\* require_session(authorization): passes, or raises HTTPException(401).
require_session(authorization, t) ==
    IF \/ ~authorization.present
       \/ HeaderChars(authorization) = <<>>
       \/ ~StartsWith(HeaderChars(authorization), BearerPrefix)
    THEN AuthError("MISSING_TOKEN", MsgMissingToken)
    ELSE LET decoded ==
                 jwt_decode(AfterPrefix(authorization), SESSION_SECRET, t)
         IN  IF decoded = "ExpiredSignatureError"
             THEN AuthError("INVALID_TOKEN", MsgSessionExpired)
             ELSE IF decoded = "InvalidTokenError"
             THEN AuthError("INVALID_TOKEN", MsgInvalidToken)
             ELSE [ok |-> TRUE]

\* ------------------------------------------------------------------------
\* POST /api/text-intelligence: analyze
\* ------------------------------------------------------------------------

\* The headers of a JSONResponse(status_code=..., content=...).
JsonHeaders == [h \in {"content-type"} |-> "application/json"]

\* {"error": {"type": ..., "code": ..., "message": ..., "details": {}}}
ErrorBody(type, code, message) ==
    [error |-> [type |-> type, code |-> code, message |-> message,
                details |-> <<>>]]

\* Mutant: the message is tested for "url" instead.
validation_error_code_url(error_msg) ==
    IF Contains(Lower(error_msg), StrUrl) THEN "INVALID_URL"
    ELSE "INVALID_TEXT"

\* "INVALID_TEXT" if "text" in error_msg.lower() else "INVALID_URL"
validation_error_code(error_msg) ==
    IF Contains(Lower(error_msg), StrText) THEN "INVALID_TEXT"
    ELSE "INVALID_URL"

\* Mutant: the "too long" test comes first.
processing_error_too_long_first(e) ==
    LET msg == Lower(e)
        class == IF Contains(msg, StrTooLong)
                 THEN [code |-> "TEXT_TOO_LONG", status |-> 400]
                 ELSE IF Contains(msg, StrText)
                 THEN [code |-> "INVALID_TEXT", status |-> 400]
                 ELSE IF Contains(msg, StrUrl)
                 THEN [code |-> "INVALID_URL", status |-> 400]
                 ELSE [code |-> "INVALID_TEXT", status |-> 500]
    IN  [status |-> class.status, code |-> class.code,
         message |-> IF class.status = 400 THEN e ELSE MsgProcessingFailed]

\* The except branch: status, code and message for the exception text
\* e = str(exception).
processing_error(e) ==
    LET msg == Lower(e)
        class == IF Contains(msg, StrText)
                 THEN [code |-> "INVALID_TEXT", status |-> 400]
                 ELSE IF Contains(msg, StrUrl)
                 THEN [code |-> "INVALID_URL", status |-> 400]
                 ELSE IF Contains(msg, StrTooLong)
                 THEN [code |-> "TEXT_TOO_LONG", status |-> 400]
                 ELSE [code |-> "INVALID_TEXT", status |-> 500]
    IN  [status |-> class.status, code |-> class.code,
         message |-> IF class.status = 400 THEN e ELSE MsgProcessingFailed]

\* What the handler ran: input validation, option building, upstream calls.
Trace(validated, built, calls) ==
    [validated |-> validated, built |-> built, calls |-> calls]

\* The endpoint for one request at time t, `upstream` being what
\* deepgram.read.v1.text.analyze does when called: the response and what ran.
analyze(req, t, upstream) ==
    LET auth == require_session(req.authorization, t)
        input == validate_text_input(req.body)
        opts == build_deepgram_options(req.language, req.summarize,
                    req.topics, req.sentiment, req.intents)
        failure == processing_error(upstream.msg)
    IN  IF ~auth.ok
        THEN [status |-> 401, headers |-> JsonHeaders, body |-> auth.body,
              trace |-> Trace(FALSE, FALSE, 0)]
        ELSE IF Truthy(input.err)
        THEN [status |-> 400, headers |-> JsonHeaders,
              body |-> ErrorBody("validation_error",
                           validation_error_code(input.err), input.err),
              trace |-> Trace(TRUE, FALSE, 0)]
        ELSE IF Truthy(opts.err)
        THEN [status |-> 400, headers |-> JsonHeaders,
              body |-> ErrorBody("validation_error", "INVALID_TEXT",
                           opts.err),
              trace |-> Trace(TRUE, TRUE, 0)]
        ELSE IF upstream.raises
        THEN [status |-> failure.status, headers |-> JsonHeaders,
              body |-> ErrorBody("processing_error", failure.code,
                           failure.message),
              trace |-> Trace(TRUE, TRUE, 1)]
        ELSE [status |-> 200, headers |-> JsonHeaders,
              body |-> [results |-> upstream.results],
              trace |-> Trace(TRUE, TRUE, 1)]

\* Request values (inputs)

TextHello == <<"H","e","l","l","o"," ","w","o","r","l","d">>

TextBlank == <<" "," ">>

UrlHttp ==
    <<"h","t","t","p",":","/","/","e","x","a","m","p","l","e",".","c","o",
      "m","/","a">>

UrlFtp ==
    <<"f","t","p",":","/","/","e","x","a","m","p","l","e",".","c","o","m",
      "/","a">>

RequestId == <<"r","e","q","-","1">>

LowerBearerPrefix == <<"b","e","a","r","e","r"," ">>

BasicPrefix == <<"B","a","s","i","c"," ">>

JunkCredential == <<"a","b","c">>

AttackerSecret == <<"a","t","t","a","c","k","e","r">>

\* Exception texts of the upstream call

ErrTextEmpty ==
    <<"I","n","p","u","t"," ","t","e","x","t"," ","i","s"," ","e","m","p",
      "t","y">>

ErrUrlFetch ==
    <<"C","o","u","l","d"," ","n","o","t"," ","f","e","t","c","h"," ","U",
      "R","L">>

ErrTooLong ==
    <<"P","a","y","l","o","a","d"," ","t","o","o"," ","l","o","n","g">>

ErrTextTooLong == <<"T","e","x","t"," ","t","o","o"," ","l","o","n","g">>

ErrUrlTooLong ==
    <<"U","R","L"," ","i","s"," ","t","o","o"," ","l","o","n","g">>

ErrConnection ==
    <<"C","o","n","n","e","c","t","i","o","n"," ","r","e","f","u","s","e",
      "d">>

ErrCurl ==
    <<"c","u","r","l",":"," ","(","7",")"," ","f","a","i","l","e","d"," ",
      "t","o"," ","c","o","n","n","e","c","t">>

\* The session tokens get_session has returned so far.
IssuedTokens ==
    {r.body.token : r \in {q \in BagToSet(reqs) :
                              q.state = "done" /\ "token" \in DOMAIN q.body}}

\* Authorization headers a client sends: none, empty, another scheme, a
\* Bearer credential that is no JWT, a JWT signed now with another key, and
\* each issued token under "Bearer " and under "bearer ".
AuthHeaders ==
    {NoAuth,
     Auth(<<>>, [junk |-> <<>>]),
     Auth(BasicPrefix, [junk |-> JunkCredential]),
     Auth(BearerPrefix, [junk |-> JunkCredential]),
     Auth(BearerPrefix, jwt_encode(now, AttackerSecret))}
    \cup {Auth(BearerPrefix, tok) : tok \in IssuedTokens}
    \cup {Auth(LowerBearerPrefix, tok) : tok \in IssuedTokens}

\* Bodies: one accepted body per field and one per validation message.
Body(text, url) == [text |-> text, url |-> url]

AnalyzeBodies ==
    {Body(TextHello, None), Body(None, UrlHttp), Body(None, None),
     Body(TextHello, UrlHttp), Body(None, UrlFtp), Body(TextBlank, None)}

\* What the upstream call does: returns results, or raises.
Returns == [raises |-> FALSE, results |-> "results"]

Raises(msg) == [raises |-> TRUE, msg |-> msg]

Upstreams ==
    {Returns} \cup
    {Raises(m) : m \in {ErrTextEmpty, ErrUrlFetch, ErrTooLong,
                        ErrTextTooLong, ErrUrlTooLong, ErrConnection,
                        ErrCurl}}

Request(auth, rid, body, summarize) ==
    [authorization |-> auth, x_request_id |-> rid, body |-> body,
     language |-> StrEn, summarize |-> summarize, topics |-> None,
     sentiment |-> None, intents |-> None]

\* Requests that vary the credential.
GateRequests ==
    {Request(a, None, b, None) :
        a \in AuthHeaders, b \in {Body(TextHello, None), Body(None, None)}}

\* Requests that vary the body, the summarize parameter and the
\* X-Request-Id header, without a credential or with an issued token.
BodyRequests ==
    {Request(a, rid, b, sm) :
        a \in {NoAuth} \cup {Auth(BearerPrefix, tok) : tok \in IssuedTokens},
        rid \in {None, RequestId},
        b \in AnalyzeBodies,
        sm \in {None, StrTrue, StrV1}}

\* POST /api/text-intelligence is handled for a request of Requests, the
\* upstream call doing one of Ups.  The endpoint changes no state of the
\* server, so a run holds one exchange, made at any point of it.
Analyze(Requests, Ups) ==
    \E req \in Requests : \E up \in Ups :
        LET out == analyze(req, now, up)
        IN  /\ resp = NoExchange
            /\ resp' = [state |-> "done", request |-> req, at |-> now,
                        upstream |-> up, status |-> out.status,
                        headers |-> out.headers, body |-> out.body,
                        trace |-> out.trace]
            /\ last' = OtherStep
            /\ UNCHANGED <<now, advances, env_secret, has_template,
                           session_nonces, hist, reqs, pure>>

\* A client loads the page before it asks for a session: at most one page
\* load for each session request of the run.
LoadPage ==
    /\ Issued < MaxSessions
    /\ ServeIndex

NextApi ==
    \/ TickJwt
    \/ LoadPage
    \/ ArriveSession({None} \cup DOMAIN hist, MaxSessions)
    \/ HandleSession
    \/ Analyze(GateRequests, {Returns})

\* The session routes and the protected endpoint, for every configuration,
\* with the clock advancing past the tokens' expiry.
SpecApi == InitSession /\ [][NextApi]_vars

InitDev ==
    /\ now = 0
    /\ advances = 0
    /\ env_secret \in EnvSecrets
    /\ has_template = FALSE
    /\ session_nonces = <<>>
    /\ hist = <<>>
    /\ last = NoCall
    /\ reqs = EmptyBag
    /\ resp = NoExchange
    /\ pure = NoCall

NextAnalyze ==
    \/ ServeIndex
    \/ ArriveSession({None}, MaxSessions)
    \/ HandleSession
    \/ Analyze(BodyRequests, Upstreams)

\* The protected endpoint without a built frontend (dev mode), for every
\* body, summarize value and upstream outcome.
SpecAnalyze == InitDev /\ [][NextAnalyze]_vars

\* ------------------------------------------------------------------------
\* Analyze endpoint: properties
\* ------------------------------------------------------------------------

Answer == resp.state = "done"

\* The request carries a 'Bearer ' credential.
HasBearer(a) == a.present /\ StartsWith(HeaderChars(a), BearerPrefix)

\* The credential is a token signed with the server's secret.
ServerSigned(tok) == ~IsJunk(tok) /\ tok.key = SESSION_SECRET

\* The response is the 401 AuthenticationError with this code.
Is401(code) ==
    /\ resp.status = 401
    /\ resp.body.detail.error.type = "AuthenticationError"
    /\ resp.body.detail.error.code = code

\* Some part of the handler body ran.
BodyRan ==
    resp.trace.validated \/ resp.trace.built \/ resp.trace.calls > 0

\* C5 (access-control gate): the handler body of POST /api/text-intelligence
\* (validation, option building, upstream call) runs only for a request
\* whose 'Bearer ' credential is a token signed with the server secret and
\* handled strictly before its exp, which is 3600 s after its iat; such a
\* request is never answered 401; without a 'Bearer ' credential the answer
\* is 401 MISSING_TOKEN, and with one that is not such a token (no JWT,
\* another key, or expired) it is 401 INVALID_TOKEN.
C5_AccessGate ==
    Answer =>
        LET a == resp.request.authorization
            tok == AfterPrefix(a)
            live == ServerSigned(tok) /\ resp.at < Seconds(tok.exp)
        IN  /\ BodyRan => HasBearer(a) /\ live
            /\ ~HasBearer(a) => Is401("MISSING_TOKEN")
            /\ (HasBearer(a) /\ ~live) => Is401("INVALID_TOKEN")
            /\ (HasBearer(a) /\ live) =>
                   resp.status # 401 /\ resp.trace.validated
            /\ (HasBearer(a) /\ ServerSigned(tok)) =>
                   tok.exp = tok.iat + JWT_EXPIRY

\* C5 witness: a token issued by get_session was accepted on the last tick
\* before its expiry, and the upstream call was made.
C5_Witness ==
    /\ Answer
    /\ HasBearer(resp.request.authorization)
    /\ ServerSigned(AfterPrefix(resp.request.authorization))
    /\ resp.at = Seconds(AfterPrefix(resp.request.authorization).exp) - 1
    /\ resp.status = 200
    /\ resp.trace.calls = 1

\* The request passed the gate and validate_text_input rejected its body.
RejectedInput ==
    Answer /\ resp.trace.validated /\ ~resp.trace.built

\* The message mentions the word (whatever the case of its letters).
Mentions(msg, word) == Contains(Lower(msg), word)

\* C7 as claimed: a rejected input is answered 400 validation_error with
\* code INVALID_URL when the message mentions the url, INVALID_TEXT
\* otherwise.
C7_AsClaimed ==
    RejectedInput =>
        /\ resp.status = 400
        /\ resp.body.error.type = "validation_error"
        /\ resp.body.error.code =
              IF Mentions(resp.body.error.message, StrUrl)
              THEN "INVALID_URL" ELSE "INVALID_TEXT"

\* C7 (validation error classification, amended): a rejected input is
\* answered 400 validation_error carrying validate_text_input's message;
\* the code is INVALID_TEXT for the messages that mention 'text' (neither
\* field, both fields, blank text: the first two mention 'url' as well) and
\* INVALID_URL for the one that does not (invalid URL format).
C7_Classification ==
    RejectedInput =>
        /\ resp.status = 400
        /\ resp.body.error.type = "validation_error"
        /\ resp.body.error.message \in
              {MsgEither, MsgNotBoth, MsgInvalidUrl, MsgEmptyText}
        /\ resp.body.error.message \in {MsgEither, MsgNotBoth, MsgEmptyText}
              => resp.body.error.code = "INVALID_TEXT"
        /\ resp.body.error.message = MsgInvalidUrl
              => resp.body.error.code = "INVALID_URL"

\* C7 witness: a body without text and url was answered INVALID_TEXT with a
\* message that mentions the url.
C7_Witness ==
    /\ RejectedInput
    /\ resp.request.body = Body(None, None)
    /\ Mentions(resp.body.error.message, StrUrl)
    /\ resp.body.error.code = "INVALID_TEXT"

\* The upstream call was made and raised.
UpstreamFailed == Answer /\ resp.trace.calls > 0 /\ resp.upstream.raises

C10_Echo ==
    (Answer /\ resp.request.x_request_id # None) =>
        /\ "x-request-id" \in DOMAIN resp.headers
        /\ resp.headers["x-request-id"] = resp.request.x_request_id

\* ------------------------------------------------------------------------
\* Helper functions: calls and properties
\* ------------------------------------------------------------------------

TextPadded == <<" ","H","i"," ","t","h","e","r","e","\n">>

TextWhitespace == <<" ","\t","\n">>

UrlHttps == <<"h","t","t","p","s",":","/","/","e","x","a","m","p","l","e",".","c","o","m">>

UrlUpper == <<"H","T","T","P",":","/","/","E","X","A","M","P","L","E",".","C","O","M">>

UrlNoSlash == <<"h","t","t","p",":","/","e","x","a","m","p","l","e",".","c","o","m">>

UrlInside == <<"s","e","e"," ","h","t","t","p",":","/","/","e","x","a","m","p","l","e",".","c","o","m">>

StrEs == <<"e","s">>

StrFalse == <<"f","a","l","s","e">>

StrUpperTrue == <<"T","r","u","e">>

StrOne == <<"1">>

\* Values of the body's text field: absent, empty, whitespace only, non-blank.
TextValues ==
    {None, <<>>, TextBlank, TextWhitespace, TextHello, TextPadded, UrlHttp}

\* Values of the body's url field: absent, empty, whitespace only, with and
\* without an http(s):// prefix.
UrlValues ==
    {None, <<>>, TextBlank, UrlHttp, UrlHttps, UrlFtp, UrlUpper, UrlNoSlash,
     UrlInside}

SummarizeValues == {None, <<>>, StrTrue, StrV2, StrV1, StrFalse, StrUpperTrue}

FlagValues == {None, StrTrue, StrUpperTrue, StrOne}

LanguageValues == {StrEn, StrEs}

ValidateCalls ==
    {[fn |-> "validate_text_input", body |-> Body(tx, u), done |-> FALSE] :
        tx \in TextValues, u \in UrlValues}

BuildCalls ==
    {[fn |-> "build_deepgram_options", language |-> lg, summarize |-> sm,
      topics |-> tp, sentiment |-> se, intents |-> it, done |-> FALSE] :
        lg \in LanguageValues, sm \in SummarizeValues, tp \in FlagValues,
        se \in FlagValues, it \in FlagValues}

InitPure ==
    /\ now = 0
    /\ advances = 0
    /\ env_secret = None
    /\ has_template = FALSE
    /\ session_nonces = <<>>
    /\ hist = <<>>
    /\ last = NoCall
    /\ reqs = EmptyBag
    /\ resp = NoExchange
    /\ pure \in ValidateCalls \cup BuildCalls

\* The pending call of validate_text_input returns.
CallValidate ==
    /\ pure.fn = "validate_text_input"
    /\ ~pure.done
    /\ pure' = [fn |-> pure.fn, body |-> pure.body, done |-> TRUE,
                ret |-> validate_text_input(pure.body)]
    /\ UNCHANGED <<now, advances, env_secret, has_template, session_nonces,
                   hist, last, reqs, resp>>

\* The pending call of build_deepgram_options returns.
CallBuild ==
    /\ pure.fn = "build_deepgram_options"
    /\ ~pure.done
    /\ pure' = [pure EXCEPT !.done = TRUE] @@
               [ret |-> build_deepgram_options(pure.language,
                            pure.summarize, pure.topics, pure.sentiment,
                            pure.intents)]
    /\ UNCHANGED <<now, advances, env_secret, has_template, session_nonces,
                   hist, last, reqs, resp>>

NextPure ==
    \/ CallValidate
    \/ CallBuild

\* One call of a helper function, for every argument of the sets above.
SpecPure == InitPure /\ [][NextPure]_vars

Validated == pure.fn = "validate_text_input" /\ pure.done

\* Every character of s is whitespace (s.strip() is empty).
IsBlank(s) == \A i \in 1..Len(s) : s[i] \in Whitespace

\* s starts with http:// or https://.
HasHttpScheme(s) ==
    \/ (Len(s) >= 7 /\ SubSeq(s, 1, 7) = HttpPrefix)
    \/ (Len(s) >= 8 /\ SubSeq(s, 1, 8) = HttpsPrefix)

\* The rules (a) to (d) for a returned call, Supplied being the values of a
\* field that count as present.
Rules(Supplied) ==
    LET text == pure.body.text
        url == pure.body.url
        ret == pure.ret
        present(v) == v \in Supplied
    IN  /\ (~present(text) /\ ~present(url)) =>
              ret.val = None /\ ret.err = MsgEither
        /\ (present(text) /\ present(url)) =>
              ret.val = None /\ ret.err = MsgNotBoth
        /\ (present(url) /\ ~present(text)) =>
              IF HasHttpScheme(url)
              THEN ret.err = None /\ ret.val = RequestDict("url", url)
              ELSE ret.val = None /\ ret.err = MsgInvalidUrl
        /\ (present(text) /\ ~present(url)) =>
              IF ~IsBlank(text)
              THEN ret.err = None /\ ret.val = RequestDict("text", text)
              ELSE ret.val = None /\ ret.err = MsgEmptyText
        /\ ret.err = None =>
              /\ Cardinality(DOMAIN ret.val) = 1
              /\ present(text) # present(url)

\* The field values that are not null.
NotNone == (TextValues \cup UrlValues) \ {None}

\* The field values that are neither null nor the empty string.
NotNoneNotEmpty == NotNone \ {<<>>}

\* C6 as claimed: the rules hold with a field present when the body supplies
\* a non-null value for it.
C6_AsClaimed == Validated => Rules(NotNone)

\* C6 (validate_text_input, amended): the rules (a) both absent, (b) both
\* present, (c) url must start with http:// or https://, (d) text must be
\* non-blank after trimming, hold in that order with a field present when
\* the body supplies a value that is neither null nor the empty string; an
\* accepted request carries exactly one of text and url.
C6_Rules == Validated => Rules(NotNoneNotEmpty)

\* C6 witness: an empty text with no url was answered "must contain either",
\* not "cannot be empty".
C6_Witness ==
    /\ Validated
    /\ pure.body = Body(<<>>, None)
    /\ pure.ret.err = MsgEither

Built == pure.fn = "build_deepgram_options" /\ pure.done

\* The keys a flag parameter contributes to the options.
FlagKey(name, param) == IF param = StrTrue THEN {name} ELSE {}

\* C8 (build_deepgram_options): summarize "v1" is rejected with the legacy
\* message and no options; otherwise the options hold language always,
\* summarize as True for "true" and as "v2" for "v2" and not at all for any
\* other value, and each of topics, sentiment, intents as True exactly when
\* its parameter is the string "true".
C8_Options ==
    Built =>
        LET ret == pure.ret
            keys == {"language"}
                    \cup (IF pure.summarize \in {StrTrue, StrV2}
                          THEN {"summarize"} ELSE {})
                    \cup FlagKey("topics", pure.topics)
                    \cup FlagKey("sentiment", pure.sentiment)
                    \cup FlagKey("intents", pure.intents)
        IN  IF pure.summarize = StrV1
            THEN ret.val = None /\ ret.err = MsgSummarizeV1
            ELSE /\ ret.err = None
                 /\ DOMAIN ret.val = keys
                 /\ ret.val["language"] = pure.language
                 /\ pure.summarize = StrTrue => ret.val["summarize"] = PyTrue
                 /\ pure.summarize = StrV2 => ret.val["summarize"] = StrV2
                 /\ \A k \in keys \ {"language", "summarize"} :
                       ret.val[k] = PyTrue

\* C8 witness: summarize="true", topics="true" gave exactly
\* {language: "en", summarize: True, topics: True}.
C8_Witness ==
    /\ Built
    /\ pure.language = StrEn /\ pure.summarize = StrTrue
    /\ pure.topics = StrTrue /\ pure.sentiment = None /\ pure.intents = None
    /\ pure.ret.err = None
    /\ pure.ret.val =
          [k \in {"language", "summarize", "topics"} |->
              IF k = "language" THEN StrEn ELSE PyTrue]

====
